---- MODULE Spec2Model ----
(***************************************************************************)
(* Model of the listing ingestion and caching pipeline of app.py:          *)
(* VehicleListingProcessor (process_listing, format_price), CacheManager,  *)
(* APIClient, fetch_listings and the listing_detail handler.               *)
(* JSON values are tagged tuples, the cache file is a                      *)
(* sequence of cells (the serialised tokens of the snapshot), and Python's *)
(* None is the option value Nothing.                                       *)
(***************************************************************************)
EXTENDS Integers, Sequences, FiniteSets, TLC

\* app.py line 26
CACHE_TIMEOUT == 1800

\* Bounds of the model.
MaxLen == 2
MaxTicks == 2
MaxPriceLen == 4

----------------------------------------------------------------------------
\* JSON scalars as Python sees them after json.load / response.json().

Null == <<"null">>
Str(s) == <<"str", s>>
Num(n) == <<"num", n>>

\* A str given character by character, and a float given in hundredths
\* (Real(150) is 1.5), for the values whose characters and fraction matter.
Text(cs) == <<"chars", cs>>
Real(c) == <<"real", c>>

IsStr(v) == v[1] = "str"
IsText(v) == v[1] = "str" \/ v[1] = "chars"
IsNumber(v) == v[1] = "num" \/ v[1] = "real"

\* The characters of a str value.
TextOf(v) ==
    CASE v[1] = "chars" -> v[2]
      [] v[1] = "str" /\ v[2] = "" -> <<>>

\* A number in hundredths.
Hundredths(v) == IF v[1] = "num" THEN 100 * v[2] ELSE v[2]

\* Python truthiness of a scalar: None, "" and 0 are falsy.
Truthy(v) ==
    CASE v[1] = "null" -> FALSE
      [] v[1] = "str" -> v[2] /= ""
      [] v[1] = "num" -> v[2] /= 0
      [] v[1] = "chars" -> v[2] /= <<>>
      [] v[1] = "real" -> v[2] /= 0
      [] OTHER -> TRUE

\* An element of a listing sequence: a mapping (dict) or anything else.
Mapping(f) == <<"map", f>>
IsMapping(item) == item[1] = "map"

\* dict.get(key, default)
Get(item, key, default) ==
    IF key \in DOMAIN item[2] THEN item[2][key] ELSE default

\* Optional values: Python's None against a returned sequence.
Nothing == [some |-> FALSE, v |-> <<>>]
Some(x) == [some |-> TRUE, v |-> x]

----------------------------------------------------------------------------
\* VehicleListingProcessor

\* str.title() on the strings the model uses.
Title(s) ==
    CASE s = "toyota" -> "Toyota"
      [] s = "corolla" -> "Corolla"
      [] s = "hilux gd-6" -> "Hilux Gd-6"
      [] s = "Unknown" -> "Unknown"
      [] s = "Model" -> "Model"
      [] OTHER -> s

\* str.replace('\r', '') on the strings the model uses.
StripCR(s) ==
    CASE s = "one owner\r\nfull history" -> "one owner\nfull history"
      [] OTHER -> s

\* parse_iso_datetime, lines 43-44: a trailing Z becomes +00:00.
FixZ(s) ==
    CASE s = "1970-01-01T00:00:10Z" -> "1970-01-01T00:00:10+00:00"
      [] s = "1970-01-01T00:00:20Z" -> "1970-01-01T00:00:20+00:00"
      [] OTHER -> s

\* parse_iso_datetime, lines 47-49: +HHMM becomes +HH:MM.
FixOffset(s) ==
    CASE s = "1970-01-01T00:00:10+0000" -> "1970-01-01T00:00:10+00:00"
      [] s = "1970-01-01T02:00:20+0200" -> "1970-01-01T02:00:20+02:00"
      [] OTHER -> s

\* datetime.fromisoformat(...).timestamp() on the strings the model uses;
\* ok = FALSE is the ValueError of a malformed string.
FromIsoFormat(s) ==
    CASE s = "1970-01-01T00:00:10+00:00" -> [ok |-> TRUE, ts |-> 10]
      [] s = "1970-01-01T00:00:20+00:00" -> [ok |-> TRUE, ts |-> 20]
      [] s = "1970-01-01T02:00:20+02:00" -> [ok |-> TRUE, ts |-> 20]
      [] OTHER -> [ok |-> FALSE, ts |-> 0]

\* parse_iso_datetime(dt_str): every exception is caught and gives 0.
parse_iso_datetime(dt_str) ==
    IF ~Truthy(dt_str) THEN 0
    ELSE IF ~IsStr(dt_str) THEN 0     \* AttributeError on endswith, caught
    ELSE LET p == FromIsoFormat(FixOffset(FixZ(dt_str[2])))
         IN IF p.ok THEN p.ts ELSE 0

----------------------------------------------------------------------------
\* format_price

DecimalDigits == <<"0", "1", "2", "3", "4", "5", "6", "7", "8", "9">>
LowerCase ==
    <<"a", "b", "c", "d", "e", "f", "g", "h", "i", "j", "k", "l", "m",
      "n", "o", "p", "q", "r", "s", "t", "u", "v", "w", "x", "y", "z">>
UpperCase ==
    <<"A", "B", "C", "D", "E", "F", "G", "H", "I", "J", "K", "L", "M",
      "N", "O", "P", "Q", "R", "S", "T", "U", "V", "W", "X", "Y", "Z">>

\* str.isdigit on one character
IsDigit(c) == \E i \in 1..10 : DecimalDigits[i] = c
DigitVal(c) == (CHOOSE i \in 1..10 : DecimalDigits[i] = c) - 1

\* int(digits)
RECURSIVE IntOf(_)
IntOf(ds) ==
    IF ds = <<>> THEN 0
    ELSE 10 * IntOf(SubSeq(ds, 1, Len(ds) - 1)) + DigitVal(ds[Len(ds)])

\* str(n) of a natural number
RECURSIVE DigitsOf(_)
DigitsOf(n) ==
    IF n < 10 THEN <<DecimalDigits[n + 1]>>
    ELSE DigitsOf(n \div 10) \o <<DecimalDigits[(n % 10) + 1]>>

\* The "," format option followed by .replace(',', ' '): groups of three
\* from the right, one space between them.
RECURSIVE GroupDigits(_)
GroupDigits(ds) ==
    IF Len(ds) <= 3 THEN ds
    ELSE GroupDigits(SubSeq(ds, 1, Len(ds) - 3))
             \o <<" ">> \o SubSeq(ds, Len(ds) - 2, Len(ds))

\* str.upper()
UpperChar(c) ==
    IF \E i \in 1..26 : LowerCase[i] = c
    THEN UpperCase[CHOOSE i \in 1..26 : LowerCase[i] = c]
    ELSE c
Upper(cs) == [i \in 1..Len(cs) |-> UpperChar(cs[i])]

\* str.strip()
RECURSIVE LStrip(_)
LStrip(cs) == IF cs /= <<>> /\ cs[1] = " " THEN LStrip(Tail(cs)) ELSE cs
RECURSIVE RStrip(_)
RStrip(cs) ==
    IF cs /= <<>> /\ cs[Len(cs)] = " "
    THEN RStrip(SubSeq(cs, 1, Len(cs) - 1)) ELSE cs
Strip(cs) == LStrip(RStrip(cs))

\* Lines 63-64: the tokens that mean "no price"
PoaTokens ==
    {<<"P", "O", "A">>,
     <<"O", "N", " ", "R", "E", "Q", "U", "E", "S", "T">>,
     <<"P", "R", "I", "C", "E", " ", "O", "N", " ",
       "A", "P", "P", "L", "I", "C", "A", "T", "I", "O", "N">>,
     <<>>}

\* Lines 60-61: the result until a price has been parsed; value in hundredths.
PoaResult == [display |-> <<"P", "O", "A">>, value |-> 0]

\* round-half-even of a non-negative number of hundredths to an integer,
\* as the .0f format does
RoundHalfEven(c) ==
    LET q == c \div 100
        r == c % 100
    IN IF r < 50 THEN q
       ELSE IF r > 50 THEN q + 1
       ELSE IF q % 2 = 0 THEN q ELSE q + 1

\* f"{x:,.0f}".replace(',', ' ') of the float x = c / 100
FormatFixed0(c) ==
    IF c < 0 THEN <<"-">> \o GroupDigits(DigitsOf(RoundHalfEven(0 - c)))
    ELSE GroupDigits(DigitsOf(RoundHalfEven(c)))

\* Only the first character right of the comma is kept.
MinorPartOne(part) == SubSeq(part, 1, IF Len(part) < 1 THEN Len(part) ELSE 1)

\* Line 75: parts[1][:2]
MinorPart(part) == SubSeq(part, 1, IF Len(part) < 2 THEN Len(part) ELSE 2)

\* Line 82: float(f"{major}.{minor}") for a non-empty digit string major and
\* at most two characters minor; ok = FALSE is ValueError.  float() ignores
\* surrounding whitespace and reads "e" and a digit as an exponent.
FloatOfParts(major, minor) ==
    LET m == RStrip(minor)
    IN IF \A i \in 1..Len(m) : IsDigit(m[i])
       THEN [ok |-> TRUE,
             value |-> 100 * IntOf(major)
                         + (IF Len(m) = 1 THEN 10 * IntOf(m) ELSE IntOf(m))]
       ELSE IF Len(m) = 2 /\ UpperChar(m[1]) = "E" /\ IsDigit(m[2])
       THEN [ok |-> TRUE, value |-> 100 * IntOf(major) * (10 ^ DigitVal(m[2]))]
       ELSE [ok |-> FALSE, value |-> 0]

Commas(cs) == {i \in 1..Len(cs) : cs[i] = ","}

\* Lines 69-89 on the stripped string
format_price_str(cs) ==
    IF Cardinality(Commas(cs)) = 1
    THEN LET k == CHOOSE i \in Commas(cs) : TRUE
             major_part_str == SubSeq(cs, 1, k - 1)
             minor_part_str == MinorPart(SubSeq(cs, k + 1, Len(cs)))
             digits == SelectSeq(major_part_str, IsDigit)
             major_digits_only == IF digits = <<>> THEN <<"0">> ELSE digits
             f == FloatOfParts(major_digits_only, minor_part_str)
         IN IF ~f.ok THEN PoaResult
            ELSE [display |-> <<"R">> \o GroupDigits(DigitsOf(IntOf(major_digits_only))),
                  value |-> f.value]
    ELSE LET clean_str == SelectSeq(cs, IsDigit)
         IN IF clean_str = <<>> THEN PoaResult
            ELSE [display |-> <<"R">> \o FormatFixed0(100 * IntOf(clean_str)),
                  value |-> 100 * IntOf(clean_str)]

\* format_price(raw_price_str): (price_display, price_value_for_sorting),
\* the value in hundredths.
format_price(raw_price_str) ==
    IF \/ ~Truthy(raw_price_str)
       \/ IsText(raw_price_str) /\ Upper(TextOf(raw_price_str)) \in PoaTokens
    THEN PoaResult
    ELSE IF IsText(raw_price_str)
    THEN format_price_str(Strip(TextOf(raw_price_str)))
    ELSE IF IsNumber(raw_price_str)
    THEN [display |-> <<"R">> \o FormatFixed0(Hundredths(raw_price_str)),
          value |-> Hundredths(raw_price_str)]
    ELSE PoaResult

\* The value process_listing has when it raises (no record is produced).
NoListing ==
    [id |-> Null, make |-> "", model |-> "", description |-> "",
     price_display |-> <<>>, price |-> 0,
     created |-> Null, created_timestamp |-> 0]

\* process_listing(item) at time.time() = t.  .get on a non-mapping and
\* .title() / .replace() on a non-string raise AttributeError, which the
\* function does not catch.
process_listing(item, t) ==
    IF ~IsMapping(item) THEN [raised |-> TRUE, v |-> NoListing]
    ELSE
      LET make == Get(item, "make", Str("Unknown"))
          model == Get(item, "model", Str("Model"))
          description == Get(item, "description", Str("No description available."))
          price == format_price(Get(item, "price", Str("")))
          created == Get(item, "created", Str(""))
      IN IF ~IsStr(make) \/ ~IsStr(model) \/ ~IsStr(description)
         THEN [raised |-> TRUE, v |-> NoListing]
         ELSE [raised |-> FALSE,
               v |-> [id |-> Get(item, "id", Null),
                      make |-> Title(make[2]),
                      model |-> Title(model[2]),
                      description |-> StripCR(description[2]),
                      price_display |-> price.display,
                      price |-> price.value,
                      created |-> created,
                      created_timestamp |->
                          IF Truthy(created) THEN parse_iso_datetime(created)
                          ELSE t]]

----------------------------------------------------------------------------
\* The cache file: the cells json.dump writes, in order.

LBrace == <<"{">>
RBrace == <<"}">>
LBracket == <<"[">>
RBracket == <<"]">>
DataOpen == <<"data[">>
DataClose == <<"data]">>
NulCell == <<"NUL">>
TsCell(v) == <<"timestamp", v>>
ItemCell(item) == <<"item", item>>

IsTsCell(c) == Len(c) = 2 /\ c[1] = "timestamp"
IsItemCell(c) == Len(c) = 2 /\ c[1] = "item"

\* json.dump({"timestamp": ts, "data": data}, f)
json_dump(ts, data) ==
    <<LBrace, TsCell(Num(ts)), DataOpen>>
        \o [i \in 1..Len(data) |-> ItemCell(data[i])]
        \o <<DataClose, RBrace>>

\* The members of a JSON object: an optional timestamp, an optional data array.
ParseMembers(b) ==
    LET hasTs == Len(b) >= 1 /\ IsTsCell(b[1])
        rest == IF hasTs THEN Tail(b) ELSE b
        hasData == /\ Len(rest) >= 2
                   /\ rest[1] = DataOpen
                   /\ rest[Len(rest)] = DataClose
                   /\ \A i \in 2..(Len(rest) - 1) : IsItemCell(rest[i])
    IN [ok |-> rest = <<>> \/ hasData,
        kind |-> "map",
        hasTs |-> hasTs,
        ts |-> IF hasTs THEN b[1][2] ELSE Null,
        hasData |-> hasData,
        data |-> IF hasData
                 THEN [i \in 1..(Len(rest) - 2) |-> rest[i + 1][2]]
                 ELSE <<>>]

ParseError ==
    [ok |-> FALSE, kind |-> "error", hasTs |-> FALSE, ts |-> Null,
     hasData |-> FALSE, data |-> <<>>]

\* json.load(f): ok = FALSE is JSONDecodeError.  A document is one object
\* or one (empty) array; anything before, after or missing is an error.
json_load(content) ==
    IF content = <<LBracket, RBracket>>
    THEN [ParseError EXCEPT !.ok = TRUE, !.kind = "list"]
    ELSE IF Len(content) >= 2 /\ content[1] = LBrace /\ content[Len(content)] = RBrace
    THEN LET m == ParseMembers(SubSeq(content, 2, Len(content) - 1))
         IN IF m.ok THEN m ELSE ParseError
    ELSE ParseError

\* A freshness test that also accepts an age of exactly CACHE_TIMEOUT.
IsFreshInclusive(t, ts) == t - ts <= CACHE_TIMEOUT

\* Line 166: time.time() - cache["timestamp"] < CACHE_TIMEOUT
IsFresh(t, ts) == t - ts < CACHE_TIMEOUT

\* CacheManager.get_listings_from_cache() at time.time() = t.
\* Only JSONDecodeError and KeyError are caught: a failing open, indexing a
\* list with "timestamp" and subtracting a non-number raise to the caller.
get_listings_from_cache(f, pm, t) ==
    IF ~f.exists THEN [raised |-> FALSE, ret |-> Nothing]
    ELSE IF ~pm.r THEN [raised |-> TRUE, ret |-> Nothing]
    ELSE LET cache == json_load(f.content)
         IN IF ~cache.ok THEN [raised |-> FALSE, ret |-> Nothing]
            ELSE IF cache.kind /= "map" THEN [raised |-> TRUE, ret |-> Nothing]
            ELSE IF ~cache.hasTs THEN [raised |-> FALSE, ret |-> Nothing]
            ELSE IF cache.ts[1] /= "num" THEN [raised |-> TRUE, ret |-> Nothing]
            ELSE IF IsFresh(t, cache.ts[2])
            THEN IF cache.hasData
                 THEN [raised |-> FALSE, ret |-> Some(cache.data)]
                 ELSE [raised |-> FALSE, ret |-> Nothing]
            ELSE [raised |-> FALSE, ret |-> Nothing]

\* CacheManager.save_listings_to_cache(data) at time.time() = t, run to
\* completion: the file after it.  A failing open is caught and logged.
save_listings_to_cache(f, pm, t, data) ==
    IF ~pm.w THEN f
    ELSE [exists |-> TRUE, content |-> json_dump(t, data)]

----------------------------------------------------------------------------
\* APIClient

\* A value stored under a key of the response mapping: the key is absent,
\* or holds null, or holds a sequence.
KeyAbsent == [p |-> "absent", v |-> <<>>]
KeyNull == [p |-> "null", v |-> <<>>]
KeyList(l) == [p |-> "list", v |-> l]

\* raw_data.get(key, []): the default is the empty list.
GetOrEmpty(val) == IF val.p = "absent" THEN KeyList(<<>>) ELSE val

\* Python truthiness of such a value: None and [] are falsy.
ValTruthy(val) == val.p = "list" /\ val.v /= <<>>

\* The environment's answer to requests.get.
NetworkError ==
    [kind |-> "neterr", status |-> 0, t |-> "invalid", list |-> <<>>,
     listings |-> KeyAbsent, vehicles |-> KeyAbsent]
Http(status, t, list, listings, vehicles) ==
    [kind |-> "http", status |-> status, t |-> t, list |-> list,
     listings |-> listings, vehicles |-> vehicles]

\* An upstream client that answers a failure with an empty sequence.
fetch_listings_from_api_EmptyOnFailure(resp) ==
    IF resp.kind /= "http" THEN Some(<<>>)
    ELSE IF resp.status = 200
    THEN IF resp.t = "invalid" THEN Some(<<>>)
         ELSE IF resp.t = "list" THEN Some(resp.list)
         ELSE IF resp.t = "map"
         THEN LET l == GetOrEmpty(resp.listings)
                  v == GetOrEmpty(resp.vehicles)
              IN IF ValTruthy(l) THEN Some(l.v)
                 ELSE IF ValTruthy(v) THEN Some(v.v)
                 ELSE Some(<<>>)
         ELSE Some(<<>>)
    ELSE Some(<<>>)

\* APIClient.fetch_listings_from_api() given the environment's answer.
fetch_listings_from_api(resp) ==
    IF resp.kind /= "http" THEN Nothing              \* requests raised, caught
    ELSE IF resp.status = 200
    THEN IF resp.t = "invalid" THEN Nothing          \* response.json() raised, caught
         ELSE IF resp.t = "list" THEN Some(resp.list)
         ELSE IF resp.t = "map"
         THEN LET l == GetOrEmpty(resp.listings)
                  v == GetOrEmpty(resp.vehicles)
              IN IF ValTruthy(l) THEN Some(l.v)
                 ELSE IF ValTruthy(v) THEN Some(v.v)
                 ELSE Some(<<>>)
         ELSE Some(<<>>)
    ELSE Nothing

----------------------------------------------------------------------------
\* fetch_listings

\* A descending sort that is not stable: equal keys come out reversed.
RECURSIVE InsertDescBeforeEqual(_, _)
InsertDescBeforeEqual(s, x) ==
    IF s = <<>> THEN <<x>>
    ELSE IF Head(s).created_timestamp > x.created_timestamp
    THEN <<Head(s)>> \o InsertDescBeforeEqual(Tail(s), x)
    ELSE <<x>> \o s

RECURSIVE SortDescUnstable(_)
SortDescUnstable(s) ==
    IF s = <<>> THEN <<>>
    ELSE InsertDescBeforeEqual(SortDescUnstable(SubSeq(s, 1, Len(s) - 1)), s[Len(s)])

\* listings.sort(key=lambda x: x["created_timestamp"], reverse=True):
\* a stable sort, so equal keys keep their order.
RECURSIVE InsertDesc(_, _)
InsertDesc(s, x) ==
    IF s = <<>> THEN <<x>>
    ELSE IF Head(s).created_timestamp >= x.created_timestamp
    THEN <<Head(s)>> \o InsertDesc(Tail(s), x)
    ELSE <<x>> \o s

RECURSIVE SortDesc(_)
SortDesc(s) ==
    IF s = <<>> THEN <<>>
    ELSE InsertDesc(SortDesc(SubSeq(s, 1, Len(s) - 1)), s[Len(s)])

\* Lines 251-257: process every item, then sort; one raising item raises.
ProcessAndSort(raw, t) ==
    LET done == [i \in 1..Len(raw) |-> process_listing(raw[i], t)]
    IN IF \E i \in 1..Len(raw) : done[i].raised
       THEN [raised |-> TRUE, result |-> <<>>]
       ELSE [raised |-> FALSE,
             result |-> SortDesc([i \in 1..Len(raw) |-> done[i].v])]

\* A miss branch that writes the cache whatever the upstream answered.
\* A miss that writes the cache only for a non-empty answer.
MissFileNonEmpty(f, pm, t, api) ==
    IF api.some /\ api.v /= <<>> THEN save_listings_to_cache(f, pm, t, api.v)
    ELSE f

MissFileAlways(f, pm, t, api) == save_listings_to_cache(f, pm, t, api.v)

\* Lines 239-241: after a miss the cache is written only when the upstream
\* answered.
MissFile(f, pm, t, api) ==
    IF api.some THEN save_listings_to_cache(f, pm, t, api.v) ELSE f

\* Lines 239-248: the raw listings after a miss.  cached_data is the value
\* get_listings_from_cache returned, which on this branch is None.
MissRaw(api, cached_data) ==
    IF api.some THEN api.v
    ELSE IF cached_data.some THEN cached_data.v
    ELSE <<>>

\* One whole invocation of fetch_listings() at time t, with the
\* environment's answer resp should the upstream be asked: the file after
\* it and what the invocation did.
fetch_listings(f, pm, t, resp) ==
    LET c == get_listings_from_cache(f, pm, t)
        cached_data == c.ret
        miss == ~c.raised /\ ~cached_data.some
        api == IF miss THEN fetch_listings_from_api(resp) ELSE Nothing
        raw_listings ==
            IF cached_data.some THEN cached_data.v
            ELSE MissRaw(api, cached_data)
        f2 == IF miss THEN MissFile(f, pm, t, api) ELSE f
        ps == ProcessAndSort(raw_listings, t)
    IN [file |-> f2,
        cache |-> c,
        called |-> miss,
        resp |-> IF miss THEN resp ELSE NetworkError,
        api |-> api,
        raw |-> IF c.raised THEN <<>> ELSE raw_listings,
        raised |-> c.raised \/ ps.raised,
        result |-> IF c.raised THEN <<>> ELSE ps.result]

----------------------------------------------------------------------------
\* listing_detail

\* str(x) of an id: a number prints as its decimal numeral, a string is
\* itself, None prints as "None"; nothing else prints as a numeral.
PyStr(v) ==
    CASE v[1] = "num" -> ToString(v[2])
      [] v[1] = "str" -> v[2]
      [] v[1] = "null" -> "None"
      [] OTHER -> "object"

\* A comparison of the ids as values instead of as strings.
IdMatchesTyped(id, listing_id) == id = Num(listing_id)

\* Lines 292 and 299: str(listing.get("id")) == str(listing_id)
IdMatches(id, listing_id) == PyStr(id) = ToString(listing_id)

FirstIndex(S) == CHOOSE i \in S : \A j \in S : i <= j

\* The answer of listing_detail before anything was found.
NotFound(fl) ==
    [file |-> fl.file, fl |-> fl, direct |-> FALSE, dapi |-> Nothing,
     error |-> FALSE, status |-> 404, car |-> NoListing]

\* Lines 288-306: the lookup, given what fetch_listings did (fl) and what
\* the direct upstream fetch returns should it be made (api).  Every
\* exception is caught and ends in the 404 answer.
LookUp(fl, api, t, listing_id) ==
    LET hits == {i \in 1..Len(fl.result) :
                    IdMatches(fl.result[i].id, listing_id)}
        raw_listings == IF api.some THEN api.v ELSE <<>>
        stops == {i \in 1..Len(raw_listings) :
                     \/ ~IsMapping(raw_listings[i])
                     \/ IdMatches(Get(raw_listings[i], "id", Null), listing_id)}
    IN IF fl.raised THEN [NotFound(fl) EXCEPT !.error = TRUE]
       ELSE IF hits /= {}
       THEN [NotFound(fl) EXCEPT !.status = 200,
                                 !.car = fl.result[FirstIndex(hits)]]
       ELSE IF stops = {}
       THEN [NotFound(fl) EXCEPT !.direct = TRUE, !.dapi = api]
       ELSE LET item == raw_listings[FirstIndex(stops)]
                processed_listing == process_listing(item, t)
            IN IF processed_listing.raised
               THEN [NotFound(fl) EXCEPT !.direct = TRUE, !.dapi = api,
                                         !.error = TRUE]
               ELSE [NotFound(fl) EXCEPT !.direct = TRUE, !.dapi = api,
                                         !.status = 200,
                                         !.car = processed_listing.v]

\* listing_detail(listing_id) at time t; resp answers the upstream call of
\* fetch_listings, resp2 the direct one.
listing_detail(f, pm, t, listing_id, resp, resp2) ==
    LookUp(fetch_listings(f, pm, t, resp), fetch_listings_from_api(resp2),
           t, listing_id)

----------------------------------------------------------------------------
\* The inputs of the model.

StartTime == 3600

ItemA == Mapping([id |-> Num(1), make |-> Str("toyota"), model |-> Str("corolla"),
                  created |-> Str("1970-01-01T00:00:10Z")])
ItemB == Mapping([id |-> Num(2), make |-> Str("toyota"), model |-> Str("hilux gd-6"),
                  description |-> Str("one owner\r\nfull history"),
                  created |-> Str("1970-01-01T00:00:10+0000")])
ItemC == Mapping([id |-> Num(3), created |-> Str("1970-01-01T02:00:20+0200")])
ItemNullMake == Mapping([id |-> Num(4), make |-> Null,
                         created |-> Str("1970-01-01T00:00:20Z")])
ItemNoCreated == Mapping([id |-> Num(5), make |-> Str("toyota")])
ItemBadCreated == Mapping([id |-> Num(6), created |-> Str("yesterday")])
ItemNotMapping == Str("not a record")

SeqsUpTo(S, n) == UNION {[1..k -> S] : k \in 0..n}

UpstreamLists ==
    SeqsUpTo({ItemA, ItemB, ItemC}, MaxLen)
        \cup {<<ItemNullMake>>, <<ItemA, ItemNullMake>>, <<ItemNoCreated, ItemC>>,
              <<ItemBadCreated, ItemA>>, <<ItemNotMapping>>,
              <<ItemA, ItemB, ItemC>>}

KeyValues(l) == {KeyAbsent, KeyNull, KeyList(<<>>), KeyList(l)}

Responses ==
    {NetworkError,
     Http(500, "list", <<ItemA>>, KeyAbsent, KeyAbsent),
     Http(404, "invalid", <<>>, KeyAbsent, KeyAbsent),
     Http(200, "invalid", <<>>, KeyAbsent, KeyAbsent),
     Http(200, "scalar", <<>>, KeyAbsent, KeyAbsent)}
        \cup {Http(200, "list", l, KeyAbsent, KeyAbsent) : l \in UpstreamLists}
        \cup {Http(200, "map", <<>>, a, b) :
                 a \in KeyValues(<<ItemA, ItemB>>), b \in KeyValues(<<ItemC>>)}

File(content) == [exists |-> TRUE, content |-> content]
NoFile == [exists |-> FALSE, content |-> <<>>]

SnapshotFiles ==
    {File(json_dump(ts, l)) :
        ts \in {StartTime - CACHE_TIMEOUT, StartTime - CACHE_TIMEOUT + 1, StartTime},
        l \in {<<>>, <<ItemA, ItemC>>, <<ItemB>>}}

CorruptFiles ==
    {File(<<>>),
     File(<<LBrace, TsCell(Num(StartTime)), DataOpen>>),
     File(<<LBracket, RBracket>>),
     File(<<LBrace, RBrace>>),
     File(<<LBrace, DataOpen, ItemCell(ItemA), DataClose, RBrace>>),
     File(<<LBrace, TsCell(Num(StartTime)), RBrace>>),
     File(<<LBrace, TsCell(Str("yesterday")), DataOpen, ItemCell(ItemA), DataClose, RBrace>>),
     File(<<LBrace, TsCell(Null), DataOpen, DataClose, RBrace>>)}

Perms ==
    {[r |-> TRUE, w |-> TRUE], [r |-> FALSE, w |-> TRUE], [r |-> TRUE, w |-> FALSE]}

----------------------------------------------------------------------------
VARIABLES
    file,     \* cache_listings.json: whether it exists, and its cells
    perm,     \* whether the process may open the file for reading, writing
    now,      \* time.time()
    ticks,    \* how often the clock has advanced
    last,     \* the last invocation of fetch_listings, as its caller saw it
    norm,     \* the last call of process_listing on its own
    detail,   \* the last request to /listing/<id>, as it was answered
    procs     \* the requests running fetch_listings concurrently, step by step

vars == <<file, perm, now, ticks, last, norm, detail, procs>>

\* The requests the server runs in parallel.
Procs == {1, 2}

NoCall ==
    [op |-> "none", pre |-> NoFile, t |-> 0,
     cache |-> [raised |-> FALSE, ret |-> Nothing],
     called |-> FALSE, resp |-> NetworkError, api |-> Nothing,
     raw |-> <<>>, raised |-> FALSE, result |-> <<>>]

NoDetail ==
    [op |-> "none", id |-> 0, pre |-> NoFile, mid |-> NoFile, direct |-> FALSE,
     dapi |-> Nothing, error |-> FALSE, status |-> 0, car |-> NoListing]

NoNorm == [op |-> "none", item |-> Mapping(<<>>), t |-> 0,
           out |-> [raised |-> FALSE, v |-> NoListing]]

\* A request that is not inside fetch_listings.
ProcIdle ==
    [pc |-> "idle", cached_data |-> Nothing, fetched |-> Nothing,
     raw_listings |-> <<>>, calls |-> 0, buf |-> <<>>, off |-> 0,
     seen |-> [read |-> FALSE, content |-> <<>>], result |-> <<>>]

Init ==
    /\ file \in {NoFile} \cup SnapshotFiles \cup CorruptFiles
    /\ perm \in Perms
    /\ now = StartTime
    /\ ticks = 0
    /\ last = NoCall
    /\ norm = NoNorm
    /\ detail = NoDetail
    /\ procs = [p \in Procs |-> ProcIdle]

\* The clock advances by one freshness window.
Tick ==
    /\ ticks < MaxTicks
    /\ ticks' = ticks + 1
    /\ now' = now + CACHE_TIMEOUT
    /\ UNCHANGED <<file, perm, last, norm, detail, procs>>

\* A request runs fetch_listings() to its end.  The upstream answers only
\* when it is asked, that is on a cache miss.
FetchListings ==
    \E resp \in IF fetch_listings(file, perm, now, NetworkError).called
                THEN Responses ELSE {NetworkError} :
        \E r \in {fetch_listings(file, perm, now, resp)} :
           /\ file' = r.file
           /\ last' = [op |-> "fetch_listings", pre |-> file, t |-> now,
                       cache |-> r.cache, called |-> r.called, resp |-> r.resp,
                       api |-> r.api, raw |-> r.raw, raised |-> r.raised,
                       result |-> r.result]
           /\ UNCHANGED <<perm, now, ticks, norm, detail, procs>>

Next == Tick \/ FetchListings

Spec == Init /\ [][Next]_vars

----------------------------------------------------------------------------
\* process_listing on its own, over every shape of raw record.

Absent == <<"absent">>

\* The raw records: every key is absent, null, or holds a value of the
\* documented type or of another one.
RawShapes ==
    [id : {Absent, Num(1)},
     make : {Absent, Null, Str("toyota"), Num(7)},
     model : {Absent, Null, Str("hilux gd-6")},
     description : {Absent, Null, Str("one owner\r\nfull history")},
     price : {Absent, Null, Num(250000), Text(<<"P", "O", "A">>),
              Text(<<"1", "2", "5", "0", ",", "5", "0">>),
              Text(<<"1", ",", "a">>)},
     created : {Absent, Null, Str(""), Str("1970-01-01T00:00:10Z"),
                Str("yesterday"), Num(5)}]

RawRecord(g) == Mapping([k \in {k \in DOMAIN g : g[k] /= Absent} |-> g[k]])

RawRecords == {RawRecord(g) : g \in RawShapes}

InitNorm ==
    /\ file = NoFile
    /\ perm = [r |-> TRUE, w |-> TRUE]
    /\ now = StartTime
    /\ ticks = 0
    /\ last = NoCall
    /\ norm = NoNorm
    /\ detail = NoDetail
    /\ procs = [p \in Procs |-> ProcIdle]

ProcessListing ==
    \E item \in RawRecords :
        /\ norm = NoNorm
        /\ norm' = [op |-> "process_listing", item |-> item, t |-> now,
                    out |-> process_listing(item, now)]
        /\ UNCHANGED <<file, perm, now, ticks, last, detail, procs>>

NextNorm == ProcessListing

SpecNorm == InitNorm /\ [][NextNorm]_vars

----------------------------------------------------------------------------
\* format_price on its own: every string over a small alphabet up to
\* MaxPriceLen characters, the strings of the documentation, and numbers.

PriceAlphabet == {"0", "1", "2", ",", " ", "a", "e"}

PriceStrings ==
    UNION {[1..n -> PriceAlphabet] : n \in 0..MaxPriceLen}
      \cup {<<"1", "8", "4", "9", "9", "0", "0", "0", ",", "0", "0">>,
            <<"R", " ", "1", " ", "2", "5", "0", " ", "0", "0", "0", ",", "5", "0">>,
            <<"0", "0", "7", "5", "0", "0", ",", "9">>,
            <<"1", ",", "2", "5", "0", ",", "0", "0", "0">>,
            <<"1", "2", " ", "5", "0", "0">>,
            <<"P", "O", "A">>,
            <<" ", "p", "o", "a">>,
            <<"O", "n", " ", "R", "e", "q", "u", "e", "s", "t">>,
            <<"p", "r", "i", "c", "e", " ", "o", "n", " ",
              "a", "p", "p", "l", "i", "c", "a", "t", "i", "o", "n">>}

PriceNumbers ==
    {Num(n) : n \in {0, 1, 999, 1000, 250000}}
      \cup {Real(c) : c \in {0, 49, 50, 51, 150, 250, 99950, 199950, 123456789}}
      \cup {Num(0 - 5), Real(0 - 40), Real(0 - 150050)}

PriceInputs ==
    {Null, Str(""), Mapping(<<>>)}
      \cup {Text(cs) : cs \in PriceStrings} \cup PriceNumbers

\* The price field as it arrives, before format_price is applied.
InitPrice ==
    /\ file = NoFile
    /\ perm = [r |-> TRUE, w |-> TRUE]
    /\ now = StartTime
    /\ ticks = 0
    /\ last = NoCall
    /\ norm \in [op : {"price"}, raw : PriceInputs, out : {PoaResult}]
    /\ detail = NoDetail
    /\ procs = [p \in Procs |-> ProcIdle]

FormatPrice ==
    /\ norm.op = "price"
    /\ norm' = [op |-> "format_price", raw |-> norm.raw,
                out |-> format_price(norm.raw)]
    /\ UNCHANGED <<file, perm, now, ticks, last, detail, procs>>

NextPrice == FormatPrice

SpecPrice == InitPrice /\ [][NextPrice]_vars

----------------------------------------------------------------------------
\* The /listing/<id> handler: requests for single listings, the clock
\* advancing between them.

ItemStrId == Mapping([id |-> Str("7"), make |-> Str("toyota")])

DetailIds == {1, 4, 7, 9}

DetailResponses ==
    {NetworkError,
     Http(200, "list", <<ItemA, ItemC>>, KeyAbsent, KeyAbsent),
     Http(200, "list", <<ItemC, ItemStrId>>, KeyAbsent, KeyAbsent),
     Http(200, "list", <<ItemNullMake>>, KeyAbsent, KeyAbsent),
     Http(200, "list", <<ItemA, ItemNotMapping, ItemStrId>>, KeyAbsent, KeyAbsent)}

InitDetail ==
    /\ file \in {NoFile,
                 File(json_dump(StartTime - CACHE_TIMEOUT, <<ItemB>>)),
                 File(json_dump(StartTime, <<ItemA, ItemC>>))}
    /\ perm \in {[r |-> TRUE, w |-> TRUE], [r |-> TRUE, w |-> FALSE]}
    /\ now = StartTime
    /\ ticks = 0
    /\ last = NoCall
    /\ norm = NoNorm
    /\ detail = NoDetail
    /\ procs = [p \in Procs |-> ProcIdle]

ListingDetail ==
    \E listing_id \in DetailIds :
      \E resp \in DetailResponses :
        \E resp2 \in DetailResponses :
          \E r \in {listing_detail(file, perm, now, listing_id, resp, resp2)} :
             /\ file' = r.file
             /\ last' = [op |-> "fetch_listings", pre |-> file, t |-> now,
                         cache |-> r.fl.cache, called |-> r.fl.called,
                         resp |-> r.fl.resp, api |-> r.fl.api,
                         raw |-> r.fl.raw, raised |-> r.fl.raised,
                         result |-> r.fl.result]
             /\ detail' = [op |-> "listing_detail", id |-> listing_id,
                           pre |-> file, mid |-> r.fl.file,
                           direct |-> r.direct, dapi |-> r.dapi,
                           error |-> r.error, status |-> r.status,
                           car |-> r.car]
             /\ UNCHANGED <<perm, now, ticks, norm, procs>>

NextDetail == Tick \/ ListingDetail

SpecDetail == InitDetail /\ [][NextDetail]_vars

----------------------------------------------------------------------------
\* fetch_listings step by step, for requests served in parallel, one
\* request per worker.  Each request opens the cache file itself: a writer
\* truncates it on open and then writes its cells at its own offset, in
\* one or more write calls.

ConcResponses ==
    {NetworkError,
     Http(200, "list", <<ItemA>>, KeyAbsent, KeyAbsent),
     Http(200, "list", <<ItemB, ItemC>>, KeyAbsent, KeyAbsent)}

InitConc ==
    /\ file \in {NoFile,
                 File(json_dump(StartTime - CACHE_TIMEOUT, <<ItemC>>)),
                 File(json_dump(StartTime, <<ItemC>>))}
    /\ perm \in {[r |-> TRUE, w |-> TRUE], [r |-> TRUE, w |-> FALSE]}
    /\ now = StartTime
    /\ ticks = 0
    /\ last = NoCall
    /\ norm = NoNorm
    /\ detail = NoDetail
    /\ procs = [p \in Procs |-> ProcIdle]

\* write(chunk) at offset off: cells past the end are appended, a gap
\* before off reads as NUL.
WriteAt(content, off, chunk) ==
    LET n == IF off + Len(chunk) > Len(content)
             THEN off + Len(chunk) ELSE Len(content)
    IN [i \in 1..n |->
           IF i > off /\ i <= off + Len(chunk) THEN chunk[i - off]
           ELSE IF i <= Len(content) THEN content[i]
           ELSE NulCell]

\* Line 162: os.path.exists(CACHE_FILE)
CacheExists(p) ==
    /\ procs[p].pc = "idle"
    /\ procs' = [procs EXCEPT ![p].pc = IF file.exists THEN "read" ELSE "api"]
    /\ UNCHANGED <<file, perm, now, ticks, last, norm, detail>>

\* Lines 163-173, 233-234: open, json.load and the freshness test on what
\* the file holds at this moment.
CacheRead(p) ==
    /\ procs[p].pc = "read"
    /\ \E c \in {get_listings_from_cache(file, perm, now)} :
          procs' = [procs EXCEPT
              ![p].seen = IF perm.r THEN [read |-> TRUE, content |-> file.content]
                          ELSE @,
              ![p].cached_data = c.ret,
              ![p].raw_listings = c.ret.v,
              ![p].pc = IF c.raised THEN "raised"
                        ELSE IF c.ret.some THEN "process"
                        ELSE "api"]
    /\ UNCHANGED <<file, perm, now, ticks, last, norm, detail>>

\* A failed fetch that is tried again instead of falling back.
AfterApiRetry(api) == IF api.some THEN "open" ELSE "api"

\* Lines 239-248: where fetch_listings goes once the upstream has answered:
\* to the cache write with a sequence, to the fallback with an absent answer.
AfterApi(api) == IF api.some THEN "open" ELSE "process"

\* Lines 237-248: the upstream is asked; an absent answer leads to the
\* fallback, a sequence to the cache write.
CallApi(p) ==
    /\ procs[p].pc = "api"
    /\ \E resp \in ConcResponses :
          \E api \in {fetch_listings_from_api(resp)} :
              procs' = [procs EXCEPT
                  ![p].fetched = api,
                  ![p].calls = @ + 1,
                  ![p].raw_listings = MissRaw(api, procs[p].cached_data),
                  ![p].pc = AfterApi(api)]
    /\ UNCHANGED <<file, perm, now, ticks, last, norm, detail>>

\* Lines 179-183: the snapshot is stamped and the file opened with "w",
\* which creates or truncates it; a failing open is caught and logged.
OpenWrite(p) ==
    /\ procs[p].pc = "open"
    /\ IF perm.w
       THEN /\ file' = File(<<>>)
            /\ procs' = [procs EXCEPT
                   ![p].buf = json_dump(now, procs[p].raw_listings),
                   ![p].off = 0,
                   ![p].pc = "write"]
       ELSE /\ file' = file
            /\ procs' = [procs EXCEPT ![p].pc = "process"]
    /\ UNCHANGED <<perm, now, ticks, last, norm, detail>>

\* Line 184 and the close of the with block: the buffered cells reach the
\* file in one or more writes.
WriteChunk(p) ==
    /\ procs[p].pc = "write"
    /\ \E k \in 1..Len(procs[p].buf) :
          /\ file' = File(WriteAt(file.content, procs[p].off,
                                  SubSeq(procs[p].buf, 1, k)))
          /\ procs' = [procs EXCEPT
                 ![p].buf = SubSeq(procs[p].buf, k + 1, Len(procs[p].buf)),
                 ![p].off = procs[p].off + k,
                 ![p].pc = IF k = Len(procs[p].buf) THEN "process" ELSE "write"]
    /\ UNCHANGED <<perm, now, ticks, last, norm, detail>>

\* Lines 251-257: process, sort, return (or raise).
Process(p) ==
    /\ procs[p].pc = "process"
    /\ \E ps \in {ProcessAndSort(procs[p].raw_listings, now)} :
          procs' = [procs EXCEPT
              ![p].result = ps.result,
              ![p].pc = IF ps.raised THEN "raised" ELSE "done"]
    /\ UNCHANGED <<file, perm, now, ticks, last, norm, detail>>

NextConc ==
    \E p \in Procs :
        \/ CacheExists(p)
        \/ CacheRead(p)
        \/ CallApi(p)
        \/ OpenWrite(p)
        \/ WriteChunk(p)
        \/ Process(p)

SpecConc == InitConc /\ [][NextConc]_vars

----------------------------------------------------------------------------
\* What the claims speak of.

Invoked == last.op = "fetch_listings"

\* The cache file before the last invocation, as a reader parses it.
PreCache == json_load(last.pre.content)

\* It held a parsable snapshot: a readable file, one JSON object with a
\* numeric timestamp and a data array.
PreIsSnapshot ==
    /\ last.pre.exists
    /\ perm.r
    /\ PreCache.ok
    /\ PreCache.kind = "map"
    /\ PreCache.hasTs
    /\ PreCache.ts[1] = "num"
    /\ PreCache.hasData

PreAge == last.t - PreCache.ts[2]

\* The upstream's answer is a failure: no answer, a status other than 200,
\* or a body that does not parse.
UpstreamFailed(resp) ==
    resp.kind /= "http" \/ resp.status /= 200 \/ resp.t = "invalid"

\* Every element is a mapping whose make, model and description are
\* strings where present: a record process_listing accepts.
WellTyped(item) ==
    /\ IsMapping(item)
    /\ \A k \in {"make", "model", "description"} \cap DOMAIN item[2] :
           IsStr(item[2][k])
AllWellTyped(raw) == \A i \in 1..Len(raw) : WellTyped(raw[i])

Normalized(raw, t) == [i \in 1..Len(raw) |-> process_listing(raw[i], t).v]

\* r holds the elements of n, newest first, equal timestamps in n's order.
IsStableDescendingOf(r, n) ==
    /\ Len(r) = Len(n)
    /\ \E pi \in Permutations(1..Len(n)) :
          /\ \A i \in 1..Len(n) : r[i] = n[pi[i]]
          /\ \A i, j \in 1..Len(n) :
                i < j => /\ r[i].created_timestamp >= r[j].created_timestamp
                         /\ (r[i].created_timestamp = r[j].created_timestamp
                                => pi[i] < pi[j])

Returned(raw) ==
    /\ ~last.raised
    /\ IsStableDescendingOf(last.result, Normalized(raw, last.t))

\* C1: with an expired parsable snapshot in the cache file and a failing
\* upstream, fetch_listings returns the normalized, sorted records of the
\* stale snapshot and raises nothing.
C1_StaleFallback ==
    (/\ Invoked
     /\ PreIsSnapshot
     /\ PreAge >= CACHE_TIMEOUT
     /\ AllWellTyped(PreCache.data)
     /\ last.called
     /\ UpstreamFailed(last.resp))
        => Returned(PreCache.data)

\* C2: with a fresh snapshot in the cache file, fetch_listings does not ask
\* the upstream and returns the cached records normalized and sorted.
C2_FreshHit ==
    (/\ Invoked
     /\ PreIsSnapshot
     /\ PreAge < CACHE_TIMEOUT
     /\ \A i \in 1..Len(PreCache.data) : IsMapping(PreCache.data[i]))
        => /\ ~last.called
           /\ Returned(PreCache.data)

\* C3: after a miss and an answering upstream the cache file holds
\* {timestamp: now, data: the fetched sequence}, the fetched records are
\* returned normalized, and a following invocation would hit the cache on
\* the same records.
C3_MissFetchWrites ==
    (/\ Invoked
     /\ perm.r /\ perm.w
     /\ last.called
     /\ last.api.some
     /\ \A i \in 1..Len(last.api.v) : IsMapping(last.api.v[i]))
        => /\ file = File(json_dump(last.t, last.api.v))
           /\ Returned(last.api.v)
           /\ get_listings_from_cache(file, perm, last.t).ret = Some(last.api.v)

\* C4: with no cache file and a failing upstream, fetch_listings returns
\* the empty sequence, raises nothing and creates no cache file.
C4_NoCacheUpstreamFails ==
    (Invoked /\ ~last.pre.exists /\ UpstreamFailed(last.resp) /\ last.called)
        => /\ ~last.raised
           /\ last.result = <<>>
           /\ ~file.exists

C4_Witness ==
    /\ Invoked
    /\ ~last.pre.exists
    /\ last.called
    /\ UpstreamFailed(last.resp)
    /\ last.result = <<>>

\* C5: what fetch_listings returns is a permutation of the normalized raw
\* listings, non-increasing in created_timestamp, with equal timestamps in
\* the order of the raw input.
C5_StableDescending ==
    (Invoked /\ ~last.raised)
        => IsStableDescendingOf(last.result, Normalized(last.raw, last.t))

C5_Witness ==
    /\ Invoked
    /\ ~last.raised
    /\ last.result /= Normalized(last.raw, last.t)
    /\ \E i, j \in 1..Len(last.result) :
          /\ i < j
          /\ last.result[i].created_timestamp = last.result[j].created_timestamp
          /\ last.result[i].id /= last.result[j].id

\* C6: get_listings_from_cache returns the snapshot's data exactly when the
\* file exists, parses and is younger than 1800 seconds; with no file, or
\* with a snapshot aged 1800 seconds or more, it returns nothing and the
\* upstream is asked.
C6_ReadIffFresh ==
    Invoked =>
        /\ last.cache.ret.some <=> (PreIsSnapshot /\ PreAge < CACHE_TIMEOUT)
        /\ last.cache.ret.some => last.cache.ret.v = PreCache.data
        /\ (~last.pre.exists \/ (PreIsSnapshot /\ PreAge >= CACHE_TIMEOUT))
              => /\ ~last.cache.raised
                 /\ ~last.cache.ret.some
                 /\ last.called

C6_Witness ==
    /\ Invoked
    /\ PreIsSnapshot
    /\ PreAge = CACHE_TIMEOUT
    /\ PreCache.data /= <<>>
    /\ ~last.cache.ret.some
    /\ last.called

\* C7: with a corrupted or unreadable cache file, get_listings_from_cache
\* returns nothing and raises nothing.
C7_CorruptIsAbsent ==
    (Invoked /\ last.pre.exists /\ ~PreIsSnapshot)
        => /\ ~last.cache.raised
           /\ ~last.cache.ret.some

\* C9: fetch_listings_from_api returns nothing for every failure and a
\* sequence for every 200 answer with a parsable body: a top-level sequence
\* as it is, of a mapping its listings if non-empty, else its vehicles if
\* non-empty, else the empty sequence, and the empty sequence otherwise.
C9_UpstreamShapes ==
    (Invoked /\ last.called) =>
        LET resp == last.resp
            nonEmpty(val) == val.p = "list" /\ Len(val.v) > 0
        IN /\ UpstreamFailed(resp) => ~last.api.some
           /\ ~UpstreamFailed(resp) =>
                 /\ last.api.some
                 /\ resp.t = "list" => last.api.v = resp.list
                 /\ resp.t = "map" =>
                       last.api.v = IF nonEmpty(resp.listings) THEN resp.listings.v
                                    ELSE IF nonEmpty(resp.vehicles) THEN resp.vehicles.v
                                    ELSE <<>>
                 /\ resp.t \notin {"list", "map"} => last.api.v = <<>>

C9_Witness ==
    /\ Invoked
    /\ last.called
    /\ last.resp.kind = "http" /\ last.resp.status = 200 /\ last.resp.t = "map"
    /\ last.resp.listings = KeyList(<<>>)
    /\ last.resp.vehicles.v /= <<>>
    /\ last.api = Some(last.resp.vehicles.v)

\* A complete snapshot: one JSON object with its timestamp and data array.
IsCompleteSnapshot(content) ==
    LET j == json_load(content)
    IN j.ok /\ j.kind = "map" /\ j.hasTs /\ j.hasData

\* C8: a get_listings_from_cache running while another request is inside
\* save_listings_to_cache never reads a partially written snapshot: what it
\* reads is a complete snapshot, the previous one or the new one.
C8_NoPartialRead ==
    \A p \in Procs :
        procs[p].seen.read => IsCompleteSnapshot(procs[p].seen.content)

\* C10: process_listing raises for no mapping; the empty mapping gives the
\* documented defaults, and null or wrongly typed fields give a record.
C10_NeverRaises ==
    norm.op = "process_listing" =>
        /\ ~norm.out.raised
        /\ norm.item = Mapping(<<>>) =>
              norm.out.v = [id |-> Null, make |-> "Unknown", model |-> "Model",
                            description |-> "No description available.",
                            price_display |-> <<"P", "O", "A">>, price |-> 0,
                            created |-> Str(""), created_timestamp |-> norm.t]

\* C11: fetch_listings returns a sequence and raises for no upstream body
\* and no cache content, elements that are not mappings included.  Stated
\* here for the invocations whose cache read went through and whose
\* mappings are all well typed, so that only elements that are no mappings
\* are left to abort the batch.
C11_NeverRaises ==
    (/\ Invoked
     /\ ~last.cache.raised
     /\ \A i \in 1..Len(last.raw) :
            IsMapping(last.raw[i]) => WellTyped(last.raw[i]))
        => ~last.raised

\* C12: one invocation of fetch_listings asks the upstream at most once,
\* and only after a cache miss; a failed fetch is not tried again, the
\* invocation goes on with the fallback result.
C12_AtMostOneFetch ==
    \A p \in Procs :
        /\ procs[p].calls <= 1
        /\ procs[p].calls = 1 => ~procs[p].cached_data.some
        /\ procs[p].pc \in {"idle", "read", "api"} => procs[p].calls = 0
        /\ (procs[p].calls = 1 /\ ~procs[p].fetched.some)
               => /\ procs[p].pc \in {"process", "done", "raised"}
                  /\ procs[p].raw_listings
                         = MissRaw(Nothing, procs[p].cached_data)

C12_Witness ==
    \E p \in Procs :
        /\ procs[p].calls = 1
        /\ ~procs[p].fetched.some
        /\ procs[p].seen.read
        /\ procs[p].pc = "done"

\* C13: when two requests miss together, both fetch and both write, then in
\* every interleaving of their write steps the cache file holds, once both
\* have finished, one complete parsable snapshot whose data is what one of
\* the two fetched, never a mixture.
C13_LastWriterWins ==
    (/\ perm.w
     /\ \A p \in Procs : /\ procs[p].fetched.some
                         /\ procs[p].pc \in {"done", "raised"})
        => /\ IsCompleteSnapshot(file.content)
           /\ \E p \in Procs :
                  json_load(file.content).data = procs[p].fetched.v

\* What the claims on format_price speak of.
PriceFormatted == norm.op = "format_price"

\* d is "R" and the decimal digits of n in groups of three from the right,
\* one space between the groups.
IsRandGrouped(d, n) ==
    /\ Len(d) >= 2
    /\ d[1] = "R"
    /\ LET r == Tail(d)
       IN /\ SelectSeq(r, IsDigit) = DigitsOf(n)
          /\ r[1] /= " "
          /\ \A i \in 1..Len(r) :
                 IF (Len(r) - i + 1) % 4 = 0 THEN r[i] = " " ELSE IsDigit(r[i])

OneComma == PriceFormatted /\ norm.raw[1] = "chars"
                /\ Cardinality(Commas(norm.raw[2])) = 1
CommaAt == CHOOSE i \in Commas(norm.raw[2]) : TRUE
MajorNumber == IntOf(SelectSeq(SubSeq(norm.raw[2], 1, CommaAt - 1), IsDigit))
RightOfComma ==
    SubSeq(norm.raw[2], CommaAt + 1,
           IF Len(norm.raw[2]) > CommaAt + 2 THEN CommaAt + 2
           ELSE Len(norm.raw[2]))
RightIsDigits == \A i \in 1..Len(RightOfComma) : IsDigit(RightOfComma[i])
FractionHundredths ==
    IF Len(RightOfComma) = 1 THEN 10 * IntOf(RightOfComma)
    ELSE IntOf(RightOfComma)

\* C14 as stated: for every price string with exactly one comma the display
\* is "R" and the digits left of the comma grouped in thousands, and the
\* sort value is that number plus the first two characters right of the
\* comma as its fraction.
C14_OneCommaAlways ==
    OneComma =>
        /\ IsRandGrouped(norm.out.display, MajorNumber)
        /\ RightIsDigits =>
               norm.out.value = 100 * MajorNumber + FractionHundredths

\* C14, amended: the same for the price strings with exactly one comma whose
\* first two characters right of the comma (fewer at the end of the string)
\* are decimal digits.
C14_OneCommaDigits ==
    (OneComma /\ RightIsDigits) =>
        /\ IsRandGrouped(norm.out.display, MajorNumber)
        /\ norm.out.value = 100 * MajorNumber + FractionHundredths

C14_Witness ==
    /\ PriceFormatted
    /\ norm.raw = Text(<<"1", "8", "4", "9", "9", "0", "0", "0", ",", "0", "0">>)
    /\ norm.out.display
           = <<"R", "1", "8", " ", "4", "9", "9", " ", "0", "0", "0">>
    /\ norm.out.value = 1849900000

\* C15: for every numeric price, 0 included, the sort value is that number
\* and the display is "R" and its integer part grouped in thousands.
\* Stated for the numbers that are not negative.
C15_NumericPrice ==
    (PriceFormatted /\ IsNumber(norm.raw) /\ Hundredths(norm.raw) >= 0) =>
        /\ norm.out.value = Hundredths(norm.raw)
        /\ IsRandGrouped(norm.out.display, Hundredths(norm.raw) \div 100)

\* What C16 speaks of: the raw record process_listing was given.
Normalised == norm.op = "process_listing"
RawCreated == Get(norm.item, "created", Str(""))
RawPrice == Get(norm.item, "price", Str(""))
WellFormedCreated == RawCreated = Str("1970-01-01T00:00:10Z")
PriceUnknown ==
    \/ RawPrice \in {Null, Str("")}
    \/ RawPrice[1] = "chars" /\ Upper(RawPrice[2]) \in PoaTokens

\* C16: for every raw record process_listing yields a record whose
\* created_timestamp and price are numbers: created_timestamp is the parsed
\* instant for a well-formed created, 0 for a created that is present but
\* malformed, the current time for a created that is absent, null or empty;
\* price is 0 when the price is unknown.
C16_DefinedSortKeys ==
    Normalised =>
        /\ ~norm.out.raised
        /\ norm.out.v.created_timestamp \in Int
        /\ norm.out.v.price \in Int
        /\ norm.out.v.created_timestamp =
               (IF RawCreated \in {Null, Str("")} THEN norm.t
                ELSE IF WellFormedCreated THEN 10
                ELSE 0)
        /\ PriceUnknown => norm.out.v.price = 0

\* What C17 speaks of: the request for one listing and the sequence the
\* fetch_listings inside it returned.
Detailed == detail.op = "listing_detail"
CachedMatches ==
    IF last.raised THEN {}
    ELSE {i \in 1..Len(last.result) :
             PyStr(last.result[i].id) = ToString(detail.id)}
DirectRaw == IF detail.dapi.some THEN detail.dapi.v ELSE <<>>
DirectMatches ==
    {i \in 1..Len(DirectRaw) :
        /\ IsMapping(DirectRaw[i])
        /\ PyStr(Get(DirectRaw[i], "id", Null)) = ToString(detail.id)}

\* C17: listing_detail renders the listing out of the sequence of
\* fetch_listings when a record there has the requested id as a string;
\* only when none has does it fetch directly from the upstream and
\* normalise the one raw record with that id; it answers 404 exactly when
\* the id is in neither, or an error occurred.
C17_DetailLookup ==
    Detailed =>
        /\ CachedMatches /= {} =>
              /\ detail.status = 200
              /\ ~detail.direct
              /\ \E i \in CachedMatches : detail.car = last.result[i]
        /\ detail.direct => (~last.raised /\ CachedMatches = {})
        /\ (detail.direct /\ detail.status = 200) =>
              \E i \in DirectMatches :
                  detail.car = process_listing(DirectRaw[i], last.t).v
        /\ detail.status \in {200, 404}
        /\ detail.status = 404 <=>
              \/ detail.error
              \/ CachedMatches = {} /\ (~detail.direct \/ DirectMatches = {})

C17_Witness ==
    /\ Detailed
    /\ ~last.called
    /\ detail.direct
    /\ detail.status = 200
    /\ detail.id = 7
    /\ detail.car.make = "Toyota"

\* C19: the cache snapshot changes only inside fetch_listings, after an
\* upstream fetch that answered with a sequence: a cache hit, a failed
\* upstream fetch and the direct upstream fetch of listing_detail leave the
\* timestamp and the data of the file as they were.
C19_SnapshotFrame ==
    Detailed =>
        /\ file /= detail.pre => (last.called /\ last.api.some)
        /\ ~last.called => file = detail.pre
        /\ (last.called /\ ~last.api.some) => file = detail.pre
        /\ detail.direct => file = detail.mid

C19_Witness ==
    /\ Detailed
    /\ last.called
    /\ ~last.api.some
    /\ detail.direct
    /\ detail.dapi.some
    /\ detail.status = 200
    /\ detail.pre.exists
    /\ file = detail.pre

\* C18: when the cache file cannot be written after the upstream answered,
\* the failure stays inside save_listings_to_cache: fetch_listings returns
\* the fetched records normalized and sorted, the file is as it was, and
\* the next invocation misses the cache again and asks the upstream.
C18_WriteFailureHidden ==
    (/\ Invoked
     /\ perm.r /\ ~perm.w
     /\ last.called
     /\ last.api.some
     /\ \A i \in 1..Len(last.api.v) : IsMapping(last.api.v[i]))
        => /\ Returned(last.api.v)
           /\ file = last.pre
           /\ fetch_listings(file, perm, now, NetworkError).called

\* A 200 answer without listings: an empty sequence, a mapping whose
\* listings and vehicles are empty, null or missing, or a body that is
\* neither a sequence nor a mapping.
ZeroListings(resp) ==
    /\ resp.kind = "http"
    /\ resp.status = 200
    /\ resp.t /= "invalid"
    /\ resp.t = "list" => resp.list = <<>>
    /\ resp.t = "map" => (resp.listings.v = <<>> /\ resp.vehicles.v = <<>>)

\* C20: a 200 answer without listings counts as a success: with a writable
\* and readable cache file (the failing write is C18's case) it replaces
\* whatever snapshot there was by one with empty data, and every invocation
\* of fetch_listings in the CACHE_TIMEOUT seconds after it returns the empty
\* sequence without asking the upstream.
C20_ZeroListingsCached ==
    /\ (Invoked /\ perm.r /\ perm.w /\ last.called /\ ZeroListings(last.resp)) =>
          /\ file = File(json_dump(last.t, <<>>))
          /\ \A d \in {0, 1, CACHE_TIMEOUT - 1} :
                LET next == fetch_listings(file, perm, last.t + d, NetworkError)
                IN ~next.called /\ ~next.raised /\ next.result = <<>>
    /\ (Invoked /\ PreIsSnapshot /\ PreCache.data = <<>>
            /\ PreAge >= 0 /\ PreAge < CACHE_TIMEOUT) =>
          (~last.called /\ ~last.raised /\ last.result = <<>>)

C20_Witness ==
    /\ Invoked
    /\ last.called
    /\ ZeroListings(last.resp)
    /\ last.resp.t = "map"
    /\ PreIsSnapshot
    /\ PreCache.data /= <<>>
    /\ file = File(json_dump(last.t, <<>>))

====
